---- MODULE Spec2Model ----
(***************************************************************************)
(* A model of the parcel-delivery REST server of src/index.js.            *)
(*                                                                         *)
(* The state is the five MongoDB collections the handlers read and write,  *)
(* the requests that are in flight (each suspended at one of the awaits of *)
(* its handler) and the outcome of the request that ended in the last      *)
(* step.  Every await of a handler on a store call is one atomic step: the *)
(* store call takes effect and the synchronous code that follows it runs,  *)
(* up to the next await or to the response.  The synchronous prefix of a   *)
(* handler, with the verifyFBToken middleware in front of it where the     *)
(* route is gated, is the request's arrival step.                          *)
(*                                                                         *)
(* Document identifiers (_id) are generated by the driver at insertOne and *)
(* never issued twice; a request names an identifier the store has issued  *)
(* (stored or since deleted), an identifier the store never issues, or a   *)
(* string that is no ObjectId.                                             *)
(***************************************************************************)
EXTENDS Integers, Sequences, FiniteSets, Bags, TLC

\* ------------------------------------------------------------------ bounds
MaxReq == 2          \* requests in flight at once
MaxParcels == 1      \* parcel documents ever inserted
MaxPayments == 2     \* payment documents ever inserted
MaxUsers == 2        \* user documents ever inserted
MaxRiders == 1       \* rider documents ever inserted
MaxTrackings == 3    \* tracking events ever inserted
MaxTime == 2         \* readings of the clock after the first

ParcelIds == 1..MaxParcels
UserIds == 1..MaxUsers
RiderIds == 1..MaxRiders

\* -------------------------------------------------------------- identifiers
NoDoc == [absent |-> TRUE]          \* no document under this _id
UnknownId == 0                      \* a well-formed ObjectId the store never issued
BadId == -1                         \* a string new ObjectId() throws on
Undefined == -2                     \* the value of a field the document does not have

\* ObjectId.isValid(id)
ObjectIdIsValid(id) == id # BadId

\* ------------------------------------------------------------ input domains
Emails == {"a@x.com", "A@x.com"}

\* String.prototype.toLowerCase on the e-mail addresses of the model
ToLower(e) == IF e = "A@x.com" THEN "a@x.com" ELSE e

\* { email: { $regex: `^${email}$`, $options: "i" } }: the anchored pattern
\* matched case-insensitively (the addresses of the model hold the regular
\* expression metacharacter "." only at a place where the subject holds "." too)
RegexMatchI(pattern, subject) == ToLower(pattern) = ToLower(subject)

PaymentStatuses == {"unpaid", "paid"}
DeliveryStatuses ==
    {"pending", "rider_assigned", "in_transit", "delivered", "service_center_delivered"}
Roles == {"user", "admin", "rider"}
RiderNames == {"R-one", "R-two"}

\* The Authorization header of a request: absent, a scheme with no token
\* after the blank, a token verifyIdToken rejects, or a token it decodes.
NoHeader == [present |-> FALSE]
NoToken == [present |-> TRUE, token |-> "", valid |-> FALSE]
BadToken == [present |-> TRUE, token |-> "forged", valid |-> FALSE]
GoodToken(e) == [present |-> TRUE, token |-> "signed", valid |-> TRUE, email |-> e]
\* the identities the Identity Verifier vouches for
TokenEmails == {"a@x.com"}
AuthHeaders == {NoHeader, NoToken, BadToken} \cup {GoodToken(e) : e \in TokenEmails}

\* the payer e-mail addresses a payment request carries
PayerEmails == {"a@x.com", "b@x.com"}

VARIABLES
    parcelCollection,    \* [ParcelIds -> parcel document or NoDoc]
    paymentCollection,   \* bag of payment documents (they differ in _id only)
    usersCollection,     \* [UserIds -> user document or NoDoc]
    ridersCollection,    \* [RiderIds -> rider document or NoDoc]
    nextParcel,          \* number of parcel _ids issued so far
    nextUser,
    nextRider,
    req,                 \* bag of the requests in flight, each at one of its awaits
    resp,                \* outcome of the request that ended in the last step
    trackingsCollection, \* the tracking events, in the order of their insertion
    now                  \* the server's clock: what new Date() reads

vars == <<parcelCollection, paymentCollection, usersCollection, ridersCollection,
          nextParcel, nextUser, nextRider, req, resp, trackingsCollection, now>>

\* the tracking trail and the clock, which only the tracking routes and the
\* passing of time change
trail == <<trackingsCollection, now>>

store == <<parcelCollection, paymentCollection, usersCollection, ridersCollection,
           trackingsCollection>>

NoResp == [op |-> "none"]

\* the identifiers a request can name for a parcel
ParcelIdInputs == {i \in ParcelIds : i <= nextParcel} \cup {UnknownId, BadId}
RiderIdInputs == {i \in RiderIds : i <= nextRider} \cup {UnknownId, BadId}
UserIdInputs == {i \in UserIds : i <= nextUser} \cup {UnknownId, BadId}

\* collection.findOne({ _id: new ObjectId(id) }) / the document an update matches
ParcelStored(id) == id \in ParcelIds /\ parcelCollection[id] # NoDoc
RiderStored(id) == id \in RiderIds /\ ridersCollection[id] # NoDoc
UserStored(id) == id \in UserIds /\ usersCollection[id] # NoDoc

Init ==
    /\ parcelCollection = [i \in ParcelIds |-> NoDoc]
    /\ paymentCollection = EmptyBag
    /\ usersCollection = [i \in UserIds |-> NoDoc]
    /\ ridersCollection = [i \in RiderIds |-> NoDoc]
    /\ nextParcel = 0
    /\ nextUser = 0
    /\ nextRider = 0
    /\ req = EmptyBag
    /\ resp = NoResp
    /\ trackingsCollection = << >>
    /\ now = 0

\* ----------------------------------------------------------- access control
\* (a faulty variant: the token after the blank is trusted without
\* verifyIdToken, and the handler runs with whatever identity it carries)
verifyFBToken_Unverified(authHeader) ==
    IF ~authHeader.present THEN [status |-> 401]
    ELSE IF authHeader.token = "" THEN [status |-> 401]
    ELSE [status |-> 0,
          decoded |-> [email |-> IF authHeader.valid THEN authHeader.email
                                 ELSE "unverified"]]

\* verifyFBToken: 401 without a header or without a token after the blank,
\* 403 when verifyIdToken throws, otherwise next() with req.decoded set
verifyFBToken(authHeader) ==
    IF ~authHeader.present THEN [status |-> 401]
    ELSE IF authHeader.token = "" THEN [status |-> 401]
    ELSE IF ~authHeader.valid THEN [status |-> 403]
    ELSE [status |-> 0, decoded |-> [email |-> authHeader.email]]

\* A request the middleware rejects ends with the middleware's status; no
\* handler code runs.
Reject(op, authHeader, status) ==
    /\ resp' = [op |-> op, status |-> status, by |-> "verifyFBToken",
                auth |-> authHeader]
    /\ UNCHANGED <<now, store, nextParcel, nextUser, nextRider, req>>

\* res.status(..).send(..) in the arrival step: the request ends at once
Answer(answer) ==
    /\ req' = req
    /\ resp' = answer

\* the handler awaits a store call: the request stays in flight as `cont`
Suspend(cont) ==
    /\ BagCardinality(req) < MaxReq
    /\ req' = req (+) SetToBag({cont})
    /\ resp' = NoResp

\* the request in flight as `c` goes on to its next await, as `cont`
Continue(c, cont) ==
    /\ req' = (req (-) SetToBag({c})) (+) SetToBag({cont})
    /\ resp' = NoResp

\* res.status(..).send(..) after an await: the request in flight as `c` ends
Respond(c, answer) ==
    /\ req' = req (-) SetToBag({c})
    /\ resp' = answer

\* the requests in flight that are suspended at `pc` of handler `op`
At(op, pc) == {c \in BagToSet(req) : c.op = op /\ c.pc = pc}

\* number of requests in flight whose handler is one of `ops`
InFlight(ops) == BagCardinality([c \in {d \in BagToSet(req) : d.op \in ops} |-> req[c]])

\* ------------------------------------------------------------------ parcels
\* The request bodies of POST /parcels: the handler stores whatever fields
\* the caller sends.
\* A time field of a document is absent (NoTime), a Date, or the string that
\* toISOString() makes of a Date; TimeOf reads the instant back from either.
NoTime == [absent |-> TRUE]
NewDate(t) == [date |-> t]
ToISOString(t) == [iso |-> t]
TimeOf(x) == IF "date" \in DOMAIN x THEN x.date ELSE x.iso

CreatorEmails == {"a@x.com", "b@x.com"}

\* a createdAt of the caller's own is a string of the JSON body
ParcelBodies ==
    [created_by : CreatorEmails, payment_status : PaymentStatuses,
     delivery_status : {"pending"}, createdAt : {NoTime, ToISOString(0)}]

\* the bodies with one sender and no createdAt of their own
PlainParcelBodies ==
    {b \in ParcelBodies : b.created_by = "a@x.com" /\ b.createdAt = NoTime}

\* the fields of a parcel document that its body did not carry
Unset ==
    [assigned_rider_id |-> Undefined, assigned_rider_email |-> "",
     assigned_rider_name |-> "", picked_at |-> NoTime, delivered_at |-> NoTime,
     cashout_status |-> "", cashed_out_at |-> NoTime]

\* req.body as inserted by the POST /parcels of part_002, which sets no
\* createdAt
NewParcelP2(body) == body @@ Unset

\* { ...req.body, createdAt: new Date() } as inserted
NewParcel(body) == [body EXCEPT !.createdAt = NewDate(now)] @@ Unset

\* app.post("/parcels", verifyFBToken, ...): insertOne, then the answer
PostParcels(authHeader, body) ==
    LET v == verifyFBToken(authHeader) IN
    IF v.status # 0 THEN Reject("POST /parcels", authHeader, v.status)
    ELSE
        /\ nextParcel < MaxParcels
        /\ nextParcel' = nextParcel + 1
        /\ parcelCollection' =
               [parcelCollection EXCEPT ![nextParcel + 1] = NewParcel(body)]
        /\ resp' = [op |-> "POST /parcels", status |-> 200, by |-> "handler",
                    decoded |-> v.decoded, body |-> body,
                    insertedId |-> nextParcel + 1]
        /\ UNCHANGED <<trail, paymentCollection, usersCollection, ridersCollection,
                       nextUser, nextRider, req>>

\* parcelCollection.deleteOne({ _id: new ObjectId(parcelId) })
DeleteOne(parcelId) ==
    IF ParcelStored(parcelId)
    THEN [parcelCollection EXCEPT ![parcelId] = NoDoc]
    ELSE parcelCollection

\* (a faulty variant: the delete is taken to have removed a document)
DeletedCount_One(parcelId) == 1

\* result.deletedCount of that deleteOne
DeletedCount(parcelId) == IF ParcelStored(parcelId) THEN 1 ELSE 0

\* app.delete("/parcels/:id", verifyFBToken, ...)
DeleteParcel(authHeader, parcelId) ==
    LET v == verifyFBToken(authHeader) IN
    IF v.status # 0 THEN Reject("DELETE /parcels/:id", authHeader, v.status)
    ELSE IF ~ObjectIdIsValid(parcelId) THEN
        /\ resp' = [op |-> "DELETE /parcels/:id", status |-> 400, by |-> "handler",
                    decoded |-> v.decoded, parcelId |-> parcelId]
        /\ UNCHANGED <<now, store, nextParcel, nextUser, nextRider, req>>
    ELSE
        /\ parcelCollection' = DeleteOne(parcelId)
        /\ resp' = [op |-> "DELETE /parcels/:id", status |-> 200, by |-> "handler",
                    decoded |-> v.decoded, parcelId |-> parcelId,
                    message |-> IF DeletedCount(parcelId) > 0
                                THEN "Parcel deleted successfully"
                                ELSE "Parcel not found"]
        /\ UNCHANGED <<trail, paymentCollection, usersCollection, ridersCollection,
                       nextParcel, nextUser, nextRider, req>>

\* app.get("/parcels/:id", verifyFBToken, ...)
GetParcel(authHeader, parcelId) ==
    LET v == verifyFBToken(authHeader) IN
    IF v.status # 0 THEN Reject("GET /parcels/:id", authHeader, v.status)
    ELSE
        /\ resp' = IF ~ObjectIdIsValid(parcelId)
                   THEN [op |-> "GET /parcels/:id", status |-> 400, by |-> "handler",
                         decoded |-> v.decoded]
                   ELSE IF ~ParcelStored(parcelId)
                   THEN [op |-> "GET /parcels/:id", status |-> 404, by |-> "handler",
                         decoded |-> v.decoded]
                   ELSE [op |-> "GET /parcels/:id", status |-> 200, by |-> "handler",
                         decoded |-> v.decoded, parcelId |-> parcelId,
                         parcel |-> parcelCollection[parcelId]]
        /\ UNCHANGED <<now, store, nextParcel, nextUser, nextRider, req>>

\* app.post("/parcels", ...) of part_002: no middleware, req.body inserted
\* as it is
PostParcelsP2(body) ==
    /\ nextParcel < MaxParcels
    /\ nextParcel' = nextParcel + 1
    /\ parcelCollection' =
           [parcelCollection EXCEPT ![nextParcel + 1] = NewParcelP2(body)]
    /\ resp' = [op |-> "POST /parcels (part_002)", status |-> 200, by |-> "handler",
                body |-> body, insertedId |-> nextParcel + 1]
    /\ UNCHANGED <<trail, paymentCollection, usersCollection, ridersCollection,
                   nextUser, nextRider, req>>

\* app.delete("/parcels/:id", ...) of part_002: no middleware, 404 when no
\* document was deleted
DeleteParcelP2(parcelId) ==
    /\ parcelCollection' =
           IF ObjectIdIsValid(parcelId) THEN DeleteOne(parcelId) ELSE parcelCollection
    /\ resp' = IF ~ObjectIdIsValid(parcelId)
               THEN [op |-> "DELETE /parcels/:id (part_002)", status |-> 400,
                     by |-> "handler", parcelId |-> parcelId,
                     message |-> "Invalid parcel ID"]
               ELSE IF DeletedCount(parcelId) > 0
               THEN [op |-> "DELETE /parcels/:id (part_002)", status |-> 200,
                     by |-> "handler", parcelId |-> parcelId,
                     message |-> "Parcel deleted successfully"]
               ELSE [op |-> "DELETE /parcels/:id (part_002)", status |-> 404,
                     by |-> "handler", parcelId |-> parcelId,
                     message |-> "Parcel not found"]
    /\ UNCHANGED <<trail, paymentCollection, usersCollection, ridersCollection,
                   nextParcel, nextUser, nextRider, req>>

\* The query strings of GET /parcels; "" stands for a parameter that is not
\* given.
ParcelQueries ==
    [email : {"", "a@x.com"}, payment_status : {"", "paid"},
     delivery_status : {"", "pending"}, assigned_rider_email : {"", "a@x.com"}]

\* no parameter given
NoQuery ==
    [email |-> "", payment_status |-> "", delivery_status |-> "",
     assigned_rider_email |-> ""]

\* the stored parcels' _ids in natural order
RECURSIVE StoredUpTo(_)
StoredUpTo(n) ==
    IF n = 0 THEN << >>
    ELSE IF parcelCollection[n] # NoDoc THEN Append(StoredUpTo(n - 1), n)
    ELSE StoredUpTo(n - 1)

\* find(query) with query.created_by, .payment_status and .delivery_status
\* set from the parameters that are given; assigned_rider_email is not read
FindParcels(query) ==
    LET Matches(p) ==
            /\ query.email # "" => parcelCollection[p].created_by = query.email
            /\ query.payment_status # ""
                   => parcelCollection[p].payment_status = query.payment_status
            /\ query.delivery_status # ""
                   => parcelCollection[p].delivery_status = query.delivery_status
    IN SelectSeq(StoredUpTo(MaxParcels), Matches)

\* The place of a createdAt in the store's order of values: a missing field
\* before a string before a Date, and by time within strings and within Dates.
SortKey(x) ==
    IF x = NoTime THEN 0
    ELSE IF "iso" \in DOMAIN x THEN 1 + x.iso
    ELSE 2 + MaxTime + x.date

\* one parcel put in its place among parcels already in descending order
RECURSIVE InsertByCreatedAtDesc(_, _)
InsertByCreatedAtDesc(sorted, p) ==
    IF sorted = << >> THEN <<p>>
    ELSE IF SortKey(parcelCollection[sorted[Len(sorted)]].createdAt)
                >= SortKey(parcelCollection[p].createdAt)
    THEN Append(sorted, p)
    ELSE Append(InsertByCreatedAtDesc(SubSeq(sorted, 1, Len(sorted) - 1), p),
                sorted[Len(sorted)])

\* { sort: { createdAt: -1 } }
RECURSIVE SortByCreatedAtDesc(_)
SortByCreatedAtDesc(ps) ==
    IF ps = << >> THEN << >>
    ELSE InsertByCreatedAtDesc(SortByCreatedAtDesc(SubSeq(ps, 1, Len(ps) - 1)),
                               ps[Len(ps)])

\* app.get("/parcels", verifyFBToken, ...); the answer lists the parcels by _id
GetParcels(authHeader, query) ==
    LET v == verifyFBToken(authHeader) IN
    IF v.status # 0 THEN Reject("GET /parcels", authHeader, v.status)
    ELSE
        /\ resp' = [op |-> "GET /parcels", status |-> 200, by |-> "handler",
                    decoded |-> v.decoded, query |-> query,
                    parcels |-> SortByCreatedAtDesc(FindParcels(query))]
        /\ UNCHANGED <<now, store, nextParcel, nextUser, nextRider, req>>

\* app.get("/parcels", ...) of part_002: of the two handlers registered for
\* the path the first answers every request, with find().toArray()
GetParcelsP2(query) ==
    /\ resp' = [op |-> "GET /parcels (part_002)", status |-> 200, by |-> "handler",
                query |-> query, parcels |-> FindParcels(NoQuery)]
    /\ UNCHANGED <<now, store, nextParcel, nextUser, nextRider, req>>

\* ----------------------------------------------------------------- delivery
\* The request bodies of PATCH /parcels/:id/assign: the rider named and the
\* name and e-mail address the caller sends along with it.
RiderNameSent(riderId) == IF riderId = 1 THEN "R-one" ELSE "R-other"
RiderEmailSent(riderId) == IF riderId = 1 THEN "a@x.com" ELSE "b@x.com"
AssignBody(riderId) ==
    [riderId |-> riderId, riderName |-> RiderNameSent(riderId),
     riderEmail |-> RiderEmailSent(riderId)]

\* (a faulty variant: the rider's e-mail address and name are not written
\* with the rider's id)
AssignParcel_IdOnly(parcelId, body) ==
    IF ParcelStored(parcelId)
    THEN [parcelCollection EXCEPT ![parcelId] =
              [@ EXCEPT !.delivery_status = "rider_assigned",
                        !.assigned_rider_id = body.riderId]]
    ELSE parcelCollection

\* parcelCollection.updateOne({ _id }, { $set: { delivery_status:
\* "rider_assigned", assigned_rider_id, assigned_rider_email, assigned_rider_name } })
AssignParcel(parcelId, body) ==
    IF ParcelStored(parcelId)
    THEN [parcelCollection EXCEPT ![parcelId] =
              [@ EXCEPT !.delivery_status = "rider_assigned",
                        !.assigned_rider_id = body.riderId,
                        !.assigned_rider_email = body.riderEmail,
                        !.assigned_rider_name = body.riderName]]
    ELSE parcelCollection

\* ridersCollection.updateOne({ _id }, { $set: { work_status: "in_delivery" } })
SetInDelivery(riderId) ==
    IF RiderStored(riderId)
    THEN [ridersCollection EXCEPT ![riderId].work_status = "in_delivery"]
    ELSE ridersCollection

\* app.patch("/parcels/:id/assign", verifyFBToken, ...), up to the end of its
\* await of the parcels' updateOne; new ObjectId(parcelId) throws inside the try
PatchAssign_Parcel(authHeader, parcelId, body) ==
    LET v == verifyFBToken(authHeader) IN
    IF v.status # 0 THEN Reject("PATCH /parcels/:id/assign", authHeader, v.status)
    ELSE IF ~ObjectIdIsValid(parcelId) THEN
        /\ Answer([op |-> "PATCH /parcels/:id/assign", status |-> 500,
                   by |-> "handler", decoded |-> v.decoded])
        /\ UNCHANGED <<now, store, nextParcel, nextUser, nextRider>>
    ELSE
        /\ parcelCollection' = AssignParcel(parcelId, body)
        /\ Suspend([op |-> "PATCH /parcels/:id/assign", pc |-> "riders.updateOne",
                    decoded |-> v.decoded, parcelId |-> parcelId,
                    riderId |-> body.riderId])
        /\ UNCHANGED <<trail, paymentCollection, usersCollection, ridersCollection,
                       nextParcel, nextUser, nextRider>>

\* ... and the riders' updateOne, then the answer; new ObjectId(riderId)
\* throws here, and the update may fail: the catch answers 500
PatchAssign_Rider(c, ok) ==
    /\ c \in At("PATCH /parcels/:id/assign", "riders.updateOne")
    /\ ridersCollection' =
           IF ok /\ ObjectIdIsValid(c.riderId) THEN SetInDelivery(c.riderId)
           ELSE ridersCollection
    /\ Respond(c, [op |-> "PATCH /parcels/:id/assign",
                   status |-> IF ok /\ ObjectIdIsValid(c.riderId) THEN 200 ELSE 500,
                   by |-> "handler", decoded |-> c.decoded])
    /\ UNCHANGED <<trail, parcelCollection, paymentCollection, usersCollection,
                   nextParcel, nextUser, nextRider>>

\* (a faulty variant: delivery_status is set and no time is stamped)
SetDeliveryStatus_NoStamp(parcelId, status) ==
    IF ParcelStored(parcelId)
    THEN [parcelCollection EXCEPT ![parcelId].delivery_status = status]
    ELSE parcelCollection

\* parcelCollection.updateOne({ _id }, { $set: updatedDoc }), where updatedDoc
\* is { delivery_status: status } with picked_at for "in_transit" and
\* delivered_at for "delivered", each new Date().toISOString()
SetDeliveryStatus(parcelId, status) ==
    IF ParcelStored(parcelId)
    THEN [parcelCollection EXCEPT ![parcelId] =
              [@ EXCEPT !.delivery_status = status,
                        !.picked_at = IF status = "in_transit"
                                      THEN ToISOString(now) ELSE @,
                        !.delivered_at = IF status = "delivered"
                                         THEN ToISOString(now) ELSE @]]
    ELSE parcelCollection

\* app.patch("/parcels/:id/status", ...): no middleware; new ObjectId(parcelId)
\* throws inside the try and the catch answers 500
PatchStatus(parcelId, status) ==
    /\ parcelCollection' =
           IF ObjectIdIsValid(parcelId) THEN SetDeliveryStatus(parcelId, status)
           ELSE parcelCollection
    /\ resp' = [op |-> "PATCH /parcels/:id/status",
                status |-> IF ObjectIdIsValid(parcelId) THEN 200 ELSE 500,
                by |-> "handler", parcelId |-> parcelId,
                delivery_status |-> status]
    /\ UNCHANGED <<trail, paymentCollection, usersCollection, ridersCollection,
                   nextParcel, nextUser, nextRider, req>>

\* parcelCollection.updateOne({ _id }, { $set: { cashout_status:
\* "cashed_out", cashed_out_at: new Date() } })
SetCashedOut(parcelId) ==
    IF ParcelStored(parcelId)
    THEN [parcelCollection EXCEPT ![parcelId] =
              [@ EXCEPT !.cashout_status = "cashed_out",
                        !.cashed_out_at = NewDate(now)]]
    ELSE parcelCollection

\* app.patch("/parcels/:id/cashout", ...): no middleware and no try; when new
\* ObjectId(id) throws or the update fails the handler sends nothing (status 0)
PatchCashout(parcelId, ok) ==
    /\ parcelCollection' =
           IF ok /\ ObjectIdIsValid(parcelId) THEN SetCashedOut(parcelId)
           ELSE parcelCollection
    /\ resp' = [op |-> "PATCH /parcels/:id/cashout",
                status |-> IF ok /\ ObjectIdIsValid(parcelId) THEN 200 ELSE 0,
                by |-> "handler", parcelId |-> parcelId]
    /\ UNCHANGED <<trail, paymentCollection, usersCollection, ridersCollection,
                   nextParcel, nextUser, nextRider, req>>

\* ----------------------------------------------------------------- payments
\* (a faulty variant: the update matches the parcel and writes nothing)
SetPaid_NoWrite(parcelId) == parcelCollection

\* parcelCollection.updateOne({ _id }, { $set: { payment_status: "paid" } })
SetPaid(parcelId) ==
    IF ParcelStored(parcelId)
    THEN [parcelCollection EXCEPT ![parcelId].payment_status = "paid"]
    ELSE parcelCollection

\* updateResult.modifiedCount of that update: 1 when a document matched and
\* its payment_status was not "paid" already
SetPaidModifiedCount(parcelId) ==
    IF ParcelStored(parcelId) /\ parcelCollection[parcelId].payment_status # "paid"
    THEN 1 ELSE 0

\* (a faulty variant: the document loses its reference to the parcel)
PaymentDoc_NoParcel(parcelId, userEmail) == [parcelId |-> UnknownId, email |-> userEmail]

\* the payment document the handlers insert
PaymentDoc(parcelId, userEmail) == [parcelId |-> parcelId, email |-> userEmail]

\* paymentCollection.insertOne(paymentDoc)
InsertPayment(doc) == paymentCollection (+) SetToBag({doc})

\* the payment handlers stop arriving once the collection, with the inserts
\* in flight, has reached the bound of the model
PaymentRoom ==
    BagCardinality(paymentCollection) + InFlight({"POST /payments", "POST /payments (v1)"})
        < MaxPayments

\* app.post("/payments", ...) of the first server (no middleware), up to its
\* await of updateOne and the modifiedCount test after it
PostPaymentsV1_Update(parcelId, userEmail) ==
    /\ PaymentRoom
    /\ IF ~ObjectIdIsValid(parcelId) THEN
           \* new ObjectId(parcelId) throws inside the try: the catch answers 500
           /\ Answer([op |-> "POST /payments (v1)", status |-> 500,
                          by |-> "handler"])
           /\ UNCHANGED <<now, store, nextParcel, nextUser, nextRider>>
       ELSE
           /\ parcelCollection' = SetPaid(parcelId)
           /\ IF SetPaidModifiedCount(parcelId) = 0
              THEN Answer([op |-> "POST /payments (v1)", status |-> 404,
                               by |-> "handler"])
              ELSE Suspend([op |-> "POST /payments (v1)", pc |-> "insertOne",
                               parcelId |-> parcelId, userEmail |-> userEmail])
           /\ UNCHANGED <<trail, paymentCollection, usersCollection, ridersCollection,
                          nextParcel, nextUser, nextRider>>

\* ... and from its await of insertOne to the answer; the insert may fail,
\* and the catch answers 500
PostPaymentsV1_Insert(c, ok) ==
    /\ c \in At("POST /payments (v1)", "insertOne")
    /\ paymentCollection' =
           IF ok THEN InsertPayment(PaymentDoc(c.parcelId, c.userEmail))
           ELSE paymentCollection
    /\ Respond(c, [op |-> "POST /payments (v1)", status |-> IF ok THEN 201 ELSE 500,
                   by |-> "handler", parcelId |-> c.parcelId])
    /\ UNCHANGED <<trail, parcelCollection, usersCollection, ridersCollection,
                   nextParcel, nextUser, nextRider>>

\* app.post("/payments", verifyFBToken, ...), up to its await of updateOne;
\* the handler has no try: when new ObjectId(parcelId) throws, the promise is
\* rejected and no answer is sent (status 0)
PostPayments_Update(authHeader, parcelId, userEmail) ==
    LET v == verifyFBToken(authHeader) IN
    /\ PaymentRoom
    /\ IF v.status # 0 THEN Reject("POST /payments", authHeader, v.status)
       ELSE IF ~ObjectIdIsValid(parcelId) THEN
           /\ Answer([op |-> "POST /payments", status |-> 0, by |-> "handler",
                          decoded |-> v.decoded])
           /\ UNCHANGED <<now, store, nextParcel, nextUser, nextRider>>
       ELSE
           /\ parcelCollection' = SetPaid(parcelId)
           /\ Suspend([op |-> "POST /payments", pc |-> "insertOne",
                          decoded |-> v.decoded,
                          parcelId |-> parcelId, userEmail |-> userEmail])
           /\ UNCHANGED <<trail, paymentCollection, usersCollection, ridersCollection,
                          nextParcel, nextUser, nextRider>>

\* ... and from its await of insertOne to the answer
PostPayments_Insert(c, ok) ==
    /\ c \in At("POST /payments", "insertOne")
    /\ paymentCollection' =
           IF ok THEN InsertPayment(PaymentDoc(c.parcelId, c.userEmail))
           ELSE paymentCollection
    /\ Respond(c, [op |-> "POST /payments", status |-> IF ok THEN 201 ELSE 0,
                   by |-> "handler", decoded |-> c.decoded,
                   parcelId |-> c.parcelId])
    /\ UNCHANGED <<trail, parcelCollection, usersCollection, ridersCollection,
                   nextParcel, nextUser, nextRider>>

\* -------------------------------------------------------------------- users
\* The request bodies of POST /users: the e-mail address and whatever role
\* the caller sends.
UserBodies == [email : Emails, role : {"user", "admin"}]

\* The first of the user documents a filter matches (findOne and updateOne
\* take the first match in the collection's natural order), or Undefined.
FirstUser(hits) ==
    IF hits = {} THEN Undefined
    ELSE CHOOSE i \in hits : \A j \in hits : i <= j

\* usersCollection.findOne({ email: { $regex: `^${email}$`, $options: "i" } })
FindUserRegexI(email) ==
    FirstUser({i \in UserIds : /\ usersCollection[i] # NoDoc
                                /\ RegexMatchI(email, usersCollection[i].email)})

\* usersCollection.findOne({ email }) / the document updateOne({ email }) takes
FindUserExact(email) ==
    FirstUser({i \in UserIds : /\ usersCollection[i] # NoDoc
                                /\ usersCollection[i].email = email})

\* verifyAdmin: the user document of req.decoded.email must have role "admin"
verifyAdmin(decoded) ==
    LET u == FindUserExact(decoded.email) IN
    IF u = Undefined \/ usersCollection[u].role # "admin"
    THEN [status |-> 403] ELSE [status |-> 0]

\* app.post("/users", ...), up to the end of its await of findOne
PostUsers_FindOne(body) ==
    /\ nextUser + InFlight({"POST /users"}) < MaxUsers
    /\ Suspend([op |-> "POST /users",
                pc |-> IF FindUserRegexI(body.email) # Undefined
                       THEN "updateOne" ELSE "insertOne",
                body |-> body, userExists |-> FindUserRegexI(body.email)])
    /\ UNCHANGED <<now, store, nextParcel, nextUser, nextRider>>

\* ... the user exists: updateOne sets last_log_in (a field the model does not
\* hold) on userExists._id, then the answer
PostUsers_UpdateOne(c) ==
    /\ c \in At("POST /users", "updateOne")
    /\ Respond(c, [op |-> "POST /users", status |-> 200, by |-> "handler",
                   inserted |-> FALSE])
    /\ UNCHANGED <<now, store, nextParcel, nextUser, nextRider>>

\* ... no user was found: insertOne({ ...req.body, created_at }), then the answer
PostUsers_InsertOne(c) ==
    /\ c \in At("POST /users", "insertOne")
    /\ nextUser' = nextUser + 1
    /\ usersCollection' =
           [usersCollection EXCEPT ![nextUser + 1] =
                [email |-> c.body.email, role |-> c.body.role]]
    /\ Respond(c, [op |-> "POST /users", status |-> 200, by |-> "handler",
                   inserted |-> TRUE])
    /\ UNCHANGED <<trail, parcelCollection, paymentCollection, ridersCollection,
                   nextParcel, nextRider>>

\* usersCollection.updateOne({ _id: new ObjectId(id) }, { $set: { role } })
SetRole(id, role) ==
    IF UserStored(id) THEN [usersCollection EXCEPT ![id].role = role]
    ELSE usersCollection

\* app.patch("/users/:id/role", verifyFBToken, verifyAdmin, ...), up to the
\* handler's await of updateOne: the two middlewares, the test of the role and
\* new ObjectId(id), which throws inside the try
PatchUserRole_Verify(authHeader, id, role) ==
    LET v == verifyFBToken(authHeader) IN
    IF v.status # 0 THEN Reject("PATCH /users/:id/role", authHeader, v.status)
    ELSE IF verifyAdmin(v.decoded).status # 0 THEN
        /\ Answer([op |-> "PATCH /users/:id/role", status |-> 403,
                   by |-> "verifyAdmin", decoded |-> v.decoded])
        /\ UNCHANGED <<now, store, nextParcel, nextUser, nextRider>>
    ELSE IF role \notin {"admin", "user"} THEN
        /\ Answer([op |-> "PATCH /users/:id/role", status |-> 400,
                   by |-> "handler", decoded |-> v.decoded])
        /\ UNCHANGED <<now, store, nextParcel, nextUser, nextRider>>
    ELSE IF ~ObjectIdIsValid(id) THEN
        /\ Answer([op |-> "PATCH /users/:id/role", status |-> 500,
                   by |-> "handler", decoded |-> v.decoded])
        /\ UNCHANGED <<now, store, nextParcel, nextUser, nextRider>>
    ELSE
        /\ Suspend([op |-> "PATCH /users/:id/role", pc |-> "updateOne",
                    decoded |-> v.decoded, id |-> id, role |-> role])
        /\ UNCHANGED <<now, store, nextParcel, nextUser, nextRider>>

\* ... and from the await of updateOne to the answer
PatchUserRole_UpdateOne(c) ==
    /\ c \in At("PATCH /users/:id/role", "updateOne")
    /\ usersCollection' = SetRole(c.id, c.role)
    /\ Respond(c, [op |-> "PATCH /users/:id/role", status |-> 200,
                   by |-> "handler", decoded |-> c.decoded])
    /\ UNCHANGED <<trail, parcelCollection, paymentCollection, ridersCollection,
                   nextParcel, nextUser, nextRider>>

\* ------------------------------------------------------------------- riders
\* The request bodies of POST /riders: the handler stores the body as it is.
RiderBodies ==
    [email : {"a@x.com", "b@x.com"}, status : {"pending", "active"},
     work_status : {"idle", "in_delivery"}]

\* app.post("/riders", ...): insertOne(req.body), then the answer
PostRiders(body) ==
    /\ nextRider < MaxRiders
    /\ nextRider' = nextRider + 1
    /\ ridersCollection' = [ridersCollection EXCEPT ![nextRider + 1] = body]
    /\ resp' = [op |-> "POST /riders", status |-> 200, by |-> "handler"]
    /\ UNCHANGED <<trail, parcelCollection, paymentCollection, usersCollection,
                   nextParcel, nextUser, req>>

\* ridersCollection.updateOne({ _id: new ObjectId(id) }, { $set: { status } })
SetRiderStatus(id, status) ==
    IF RiderStored(id) THEN [ridersCollection EXCEPT ![id].status = status]
    ELSE ridersCollection

\* usersCollection.updateOne({ email }, { $set: { role: "rider" } })
SetRoleRider(email) ==
    IF FindUserExact(email) # Undefined
    THEN [usersCollection EXCEPT ![FindUserExact(email)].role = "rider"]
    ELSE usersCollection

\* app.patch("/riders/:id/status", ...), up to the end of its await of the
\* riders' updateOne; the handler has no try: when new ObjectId(id) throws no
\* answer is sent (status 0)
PatchRiderStatus_Rider(id, status, email) ==
    IF ~ObjectIdIsValid(id) THEN
        /\ Answer([op |-> "PATCH /riders/:id/status", status |-> 0, by |-> "handler"])
        /\ UNCHANGED <<now, store, nextParcel, nextUser, nextRider>>
    ELSE
        /\ ridersCollection' = SetRiderStatus(id, status)
        /\ IF status = "active"
           THEN Suspend([op |-> "PATCH /riders/:id/status", pc |-> "users.updateOne",
                         id |-> id, status |-> status, email |-> email])
           ELSE Answer([op |-> "PATCH /riders/:id/status", status |-> 200,
                        by |-> "handler"])
        /\ UNCHANGED <<trail, parcelCollection, paymentCollection, usersCollection,
                       nextParcel, nextUser, nextRider>>

\* ... the status is "active": the users' updateOne, then the answer
PatchRiderStatus_User(c) ==
    /\ c \in At("PATCH /riders/:id/status", "users.updateOne")
    /\ usersCollection' = SetRoleRider(c.email)
    /\ Respond(c, [op |-> "PATCH /riders/:id/status", status |-> 200,
                   by |-> "handler"])
    /\ UNCHANGED <<trail, parcelCollection, paymentCollection, ridersCollection,
                   nextParcel, nextUser, nextRider>>

\* ------------------------------------------------------ the payment requests
\* ----------------------------------------------------------------- tracking
\* time passes: a later new Date() reads a later time
Tick ==
    /\ now < MaxTime
    /\ now' = now + 1
    /\ resp' = NoResp
    /\ UNCHANGED <<store, nextParcel, nextUser, nextRider, req>>

\* The request bodies of POST /trackings; "" stands for a field that is
\* absent or empty, which !update.field takes alike.
TrackingIds == {"T1", "T2"}
TrackingBodies == [tracking_id : TrackingIds \cup {""}, status : {"in_transit", ""}]

\* (a faulty variant: only tracking_id is looked at)
MissingField_TrackingIdOnly(update) == update.tracking_id = ""

\* !update.tracking_id || !update.status
MissingField(update) == update.tracking_id = "" \/ update.status = ""

\* app.post("/trackings", ...), its synchronous part: update.timestamp = new
\* Date(), the check of the two fields, and the call of insertOne, which the
\* store carries out later
PostTrackings_Stamp(body) ==
    LET update == [tracking_id |-> body.tracking_id, status |-> body.status,
                   timestamp |-> now] IN
    /\ IF MissingField(update)
       THEN Answer([op |-> "POST /trackings", status |-> 400, by |-> "handler",
                    update |-> update])
       ELSE /\ Len(trackingsCollection) + InFlight({"POST /trackings"}) < MaxTrackings
            /\ Suspend([op |-> "POST /trackings", pc |-> "insertOne",
                        update |-> update])
    /\ UNCHANGED <<now, store, nextParcel, nextUser, nextRider>>

\* ... and the insertOne, then the answer; no try around it: when the insert
\* fails the handler sends nothing (status 0)
PostTrackings_Insert(c, ok) ==
    /\ c \in At("POST /trackings", "insertOne")
    /\ trackingsCollection' =
           IF ok THEN Append(trackingsCollection, c.update) ELSE trackingsCollection
    /\ Respond(c, [op |-> "POST /trackings", status |-> IF ok THEN 201 ELSE 0,
                   by |-> "handler", update |-> c.update])
    /\ UNCHANGED <<now, parcelCollection, paymentCollection, usersCollection,
                   ridersCollection, nextParcel, nextUser, nextRider>>

\* find({ tracking_id: trackingId }): the matching events, in natural order
FindTrackings(trackingId) ==
    LET Matches(e) == e.tracking_id = trackingId
    IN SelectSeq(trackingsCollection, Matches)

\* (a faulty variant: the cursor is not sorted)
SortByTimestamp_Unsorted(updates) == updates

\* one event put in its place among events already in ascending order
RECURSIVE InsertByTimestamp(_, _)
InsertByTimestamp(sorted, e) ==
    IF sorted = << >> THEN <<e>>
    ELSE IF sorted[Len(sorted)].timestamp <= e.timestamp THEN Append(sorted, e)
    ELSE Append(InsertByTimestamp(SubSeq(sorted, 1, Len(sorted) - 1), e),
                sorted[Len(sorted)])

\* .sort({ timestamp: 1 })
RECURSIVE SortByTimestamp(_)
SortByTimestamp(updates) ==
    IF updates = << >> THEN << >>
    ELSE InsertByTimestamp(SortByTimestamp(SubSeq(updates, 1, Len(updates) - 1)),
                           updates[Len(updates)])

\* app.get("/trackings/:trackingId", ...); no try around the find: when it
\* fails the handler sends nothing (status 0)
GetTrackings(trackingId, ok) ==
    /\ resp' = IF ok
               THEN [op |-> "GET /trackings/:trackingId", status |-> 200,
                     by |-> "handler", trackingId |-> trackingId,
                     updates |-> SortByTimestamp(FindTrackings(trackingId))]
               ELSE [op |-> "GET /trackings/:trackingId", status |-> 0,
                     by |-> "handler", trackingId |-> trackingId]
    /\ UNCHANGED <<now, store, nextParcel, nextUser, nextRider, req>>

\* ------------------------------------------------ the tracking requests
NextTrack ==
    \/ Tick
    \/ \E b \in TrackingBodies : PostTrackings_Stamp(b)
    \/ \E c \in BagToSet(req), ok \in BOOLEAN : PostTrackings_Insert(c, ok)
    \/ \E t \in TrackingIds, ok \in BOOLEAN : GetTrackings(t, ok)

SpecTrack == Init /\ [][NextTrack]_vars

\* the events of a sequence, each as many times as it occurs in it
SeqToBag(seq) ==
    [e \in {seq[i] : i \in DOMAIN seq} |-> Cardinality({i \in DOMAIN seq : seq[i] = e})]

\* C11: whenever getTrail(tracking_id) answers, its result holds exactly the
\* stored events of that tracking_id, each once, in non-decreasing order of
\* their stamped time (the empty sequence when there is none).
C11_TrailSortedAndExact ==
    (resp.op = "GET /trackings/:trackingId" /\ resp.status = 200)
        => /\ \A i, j \in DOMAIN resp.updates :
                  i < j => resp.updates[i].timestamp <= resp.updates[j].timestamp
           /\ SeqToBag(resp.updates) = SeqToBag(FindTrackings(resp.trackingId))

\* getTrail has just answered with two events of distinct times that were
\* inserted in the other order
C11_Witness ==
    /\ resp.op = "GET /trackings/:trackingId" /\ resp.status = 200
    /\ Len(resp.updates) >= 2
    /\ resp.updates[1].timestamp < resp.updates[2].timestamp
    /\ \E i, j \in DOMAIN trackingsCollection :
           /\ i < j
           /\ trackingsCollection[i] = resp.updates[2]
           /\ trackingsCollection[j] = resp.updates[1]

\* C12: appendEvent answers 400 exactly when tracking_id or status is absent,
\* and then the stored events are unchanged; an appendEvent that answers 201
\* has added its one event at the end; and no step changes or removes an
\* event that is stored.
C12_AppendOnly ==
    /\ [](resp.op = "POST /trackings" /\ resp.status # 0
              => (resp.status = 400 <=> (resp.update.tracking_id = ""
                                           \/ resp.update.status = "")))
    /\ [](\A c \in BagToSet(req) :
              c.op = "POST /trackings"
                  => c.update.tracking_id # "" /\ c.update.status # "")
    /\ [][/\ resp'.op = "POST /trackings" /\ resp'.status = 400
                 => UNCHANGED trackingsCollection
          /\ resp'.op = "POST /trackings" /\ resp'.status = 201
                 => trackingsCollection' = Append(trackingsCollection, resp'.update)
          /\ \/ UNCHANGED trackingsCollection
             \/ /\ Len(trackingsCollection') = Len(trackingsCollection) + 1
                /\ SubSeq(trackingsCollection', 1, Len(trackingsCollection))
                       = trackingsCollection]_vars

\* an appendEvent without status has just been answered 400 while an event is
\* stored
C12_Witness ==
    /\ resp.op = "POST /trackings" /\ resp.status = 400
    /\ resp.update.tracking_id # "" /\ resp.update.status = ""
    /\ Len(trackingsCollection) >= 1

NextPay ==
    \/ \E h \in AuthHeaders, b \in PlainParcelBodies : PostParcels(h, b)
    \/ \E h \in AuthHeaders, p \in ParcelIdInputs : DeleteParcel(h, p)
    \/ \E p \in ParcelIdInputs, e \in PayerEmails : PostPaymentsV1_Update(p, e)
    \/ \E c \in BagToSet(req), ok \in BOOLEAN : PostPaymentsV1_Insert(c, ok)
    \/ \E h \in AuthHeaders, p \in ParcelIdInputs, e \in PayerEmails :
           PostPayments_Update(h, p, e)
    \/ \E c \in BagToSet(req), ok \in BOOLEAN : PostPayments_Insert(c, ok)

SpecPay == Init /\ [][NextPay]_vars


\* ===================================================== payment properties
\* the payment documents that reference parcel p, and how many there are
PaymentsOf(p) == {d \in BagToSet(paymentCollection) : d.parcelId = p}
PaymentCount(p) ==
    BagCardinality([d \in PaymentsOf(p) |-> paymentCollection[d]])

PaymentOps == {"POST /payments", "POST /payments (v1)"}

\* C1: whenever a recordPayment request for a parcel that is in the store
\* ends with its success answer (201), that parcel's payment_status is
\* "paid" and a Payment document with its parcelId is in the store.
C1_PaidAndRecorded ==
    (resp.op \in PaymentOps /\ resp.status = 201 /\ ParcelStored(resp.parcelId))
        => /\ parcelCollection[resp.parcelId].payment_status = "paid"
           /\ PaymentsOf(resp.parcelId) # {}

\* a payment request for a stored parcel has just been answered 201
C1_Witness ==
    /\ resp.op = "POST /payments" /\ resp.status = 201
    /\ ParcelStored(resp.parcelId)
    /\ PaymentCount(resp.parcelId) = 1

\* C2 as claimed: every stored Payment document references a stored parcel
\* whose payment_status is "paid".
C2_PaymentRefersToStoredPaidParcel ==
    \A d \in BagToSet(paymentCollection) :
        ParcelStored(d.parcelId) /\ parcelCollection[d.parcelId].payment_status = "paid"

\* C2 as amended: every stored Payment document whose parcelId names a parcel
\* that is in the store references a parcel whose payment_status is "paid"
\* (the parcel may have been deleted since, or never have been stored).
C2_StoredParcelOfPaymentIsPaid ==
    \A d \in BagToSet(paymentCollection) :
        ParcelStored(d.parcelId) => parcelCollection[d.parcelId].payment_status = "paid"

\* a Payment document references a parcel that is in the store, with another
\* payment request for it between its two store calls
C2_Witness ==
    \E d \in BagToSet(paymentCollection) :
        /\ ParcelStored(d.parcelId)
        /\ \E c \in BagToSet(req) : c.op \in PaymentOps /\ c.parcelId = d.parcelId

\* C3: a step that flips a stored parcel's payment_status to "paid" is taken
\* only when a Payment document for that parcel has been inserted already.
C3_PaidOnlyAfterInsert ==
    [][\A p \in ParcelIds :
          (/\ ParcelStored(p)
           /\ parcelCollection[p].payment_status # "paid"
           /\ parcelCollection'[p] # NoDoc
           /\ parcelCollection'[p].payment_status = "paid")
              => PaymentsOf(p) # {}]_vars

\* C4: at most one Payment document is ever inserted for a parcel.
C4_AtMostOnePayment == \A p \in ParcelIds : PaymentCount(p) <= 1

\* ------------------------------------------- the user and rider requests
NextUsers ==
    \/ \E b \in UserBodies : PostUsers_FindOne(b)
    \/ \E c \in BagToSet(req) : PostUsers_UpdateOne(c)
    \/ \E c \in BagToSet(req) : PostUsers_InsertOne(c)
    \/ \E h \in AuthHeaders, i \in UserIdInputs, ro \in Roles :
           PatchUserRole_Verify(h, i, ro)
    \/ \E c \in BagToSet(req) : PatchUserRole_UpdateOne(c)
    \/ \E b \in RiderBodies : b.work_status = "idle" /\ PostRiders(b)
    \/ \E i \in RiderIdInputs, st \in {"pending", "active"}, e \in Emails :
           PatchRiderStatus_Rider(i, st, e)
    \/ \E c \in BagToSet(req) : PatchRiderStatus_User(c)

SpecUsers == Init /\ [][NextUsers]_vars


\* ================================================ user and rider properties
\* the request in flight as c ends in this step
Ended(c) == CopiesIn(c, req') < CopiesIn(c, req)

\* C5: once the upsertOnLogin requests have completed, no two User documents
\* hold the same e-mail address, compared case-insensitively.
C5_OneUserPerEmail ==
    InFlight({"POST /users"}) = 0
        => \A i, j \in UserIds :
               (UserStored(i) /\ UserStored(j) /\ i # j)
                   => ToLower(usersCollection[i].email) # ToLower(usersCollection[j].email)

\* C6: a step changes the role of an existing User only when it is (a) the
\* update of a setRole request, which passed verifyFBToken and verifyAdmin,
\* on that User, or (b) the cascade of a setStatus request with status
\* "active" for a stored Rider whose e-mail address is that User's.
C6_RoleChangesOnlyByAdminOrActivation ==
    [][\A u \in UserIds :
          (UserStored(u) /\ usersCollection'[u].role # usersCollection[u].role)
              => \/ \E c \in At("PATCH /users/:id/role", "updateOne") :
                        Ended(c) /\ c.id = u
                 \/ \E c \in At("PATCH /riders/:id/status", "users.updateOne") :
                        /\ Ended(c)
                        /\ c.status = "active"
                        /\ RiderStored(c.id)
                        /\ ToLower(ridersCollection[c.id].email)
                               = ToLower(usersCollection[u].email)]_vars

\* C7: when setStatus(riderId, "active", email) completes for a stored Rider
\* whose e-mail address is `email`, every User document for that address (as
\* upsertOnLogin matches it: case-insensitively) has role "rider".
C7_ActiveRiderHasRiderRole ==
    [][\A c \in At("PATCH /riders/:id/status", "users.updateOne") :
          (/\ Ended(c)
           /\ resp'.status = 200
           /\ RiderStored(c.id)
           /\ ridersCollection[c.id].email = c.email)
              => \A u \in UserIds :
                     (/\ usersCollection'[u] # NoDoc
                      /\ RegexMatchI(c.email, usersCollection'[u].email))
                         => usersCollection'[u].role = "rider"]_vars

\* ------------------------------------------------- the delivery requests
NextDelivery ==
    \/ \E h \in AuthHeaders, b \in PlainParcelBodies :
           b.payment_status = "unpaid" /\ PostParcels(h, b)
    \/ \E b \in RiderBodies : b.status = "pending" /\ PostRiders(b)
    \/ \E h \in AuthHeaders, p \in ParcelIdInputs, i \in RiderIdInputs :
           PatchAssign_Parcel(h, p, AssignBody(i))
    \/ \E c \in BagToSet(req), ok \in BOOLEAN : PatchAssign_Rider(c, ok)
    \/ \E p \in ParcelIdInputs, st \in DeliveryStatuses : PatchStatus(p, st)
    \/ \E h \in AuthHeaders, p \in ParcelIdInputs : DeleteParcel(h, p)

SpecDelivery == Init /\ [][NextDelivery]_vars

\* ==================================================== delivery properties
\* C8: when assignRider(P, R, ..) ends with its success answer, parcel P is
\* stored with delivery_status "rider_assigned" and assigned_rider_id R, and
\* rider R is stored with work_status "in_delivery".
C8_AssignedOnSuccess ==
    [][\A c \in At("PATCH /parcels/:id/assign", "riders.updateOne") :
          (Ended(c) /\ resp'.status = 200)
              => /\ c.parcelId \in ParcelIds
                 /\ parcelCollection'[c.parcelId] # NoDoc
                 /\ parcelCollection'[c.parcelId].delivery_status = "rider_assigned"
                 /\ parcelCollection'[c.parcelId].assigned_rider_id = c.riderId
                 /\ c.riderId \in RiderIds
                 /\ ridersCollection'[c.riderId] # NoDoc
                 /\ ridersCollection'[c.riderId].work_status = "in_delivery"]_vars

\* the place of a delivery_status in the lifecycle
\* pending -> rider_assigned -> in_transit -> delivered / service_center_delivered
Stage(status) ==
    IF status = "pending" THEN 0
    ELSE IF status = "rider_assigned" THEN 1
    ELSE IF status = "in_transit" THEN 2
    ELSE 3

\* C10: no step moves a stored parcel's delivery_status to an earlier stage
\* of the lifecycle than the one it has.
C10_DeliveryStatusMonotonic ==
    [][\A p \in ParcelIds :
          (ParcelStored(p) /\ parcelCollection'[p] # NoDoc)
              => Stage(parcelCollection'[p].delivery_status)
                     >= Stage(parcelCollection[p].delivery_status)]_vars

\* ------------------------------------------- the requests on gated routes
\* The routes gated by verifyFBToken, with POST /users (not gated), which
\* creates the users verifyAdmin looks up.  The Authorization header ranges
\* over AuthHeaders; the other inputs of a request are held to the values
\* that take its handler down each of its paths.
\* Under SpecAuth the requests are served one at a time: a request arrives
\* when none is in flight.
OneAtATime == req = EmptyBag

NextAuth ==
    \/ \E h \in AuthHeaders, b \in PlainParcelBodies :
           OneAtATime /\ b.payment_status = "unpaid" /\ PostParcels(h, b)
    \/ \E h \in AuthHeaders, p \in ParcelIdInputs : OneAtATime /\ GetParcel(h, p)
    \/ \E h \in AuthHeaders, p \in ParcelIdInputs : OneAtATime /\ DeleteParcel(h, p)
    \/ \E h \in AuthHeaders, p \in ParcelIdInputs :
           OneAtATime /\ PatchAssign_Parcel(h, p, AssignBody(UnknownId))
    \/ \E c \in BagToSet(req) : PatchAssign_Rider(c, TRUE)
    \/ \E h \in AuthHeaders, p \in ParcelIdInputs :
           OneAtATime /\ PostPayments_Update(h, p, "a@x.com")
    \/ \E c \in BagToSet(req) : PostPayments_Insert(c, TRUE)
    \/ \E b \in UserBodies :
           OneAtATime /\ b.email = "a@x.com" /\ b.role = "admin" /\ PostUsers_FindOne(b)
    \/ \E c \in BagToSet(req) : PostUsers_UpdateOne(c)
    \/ \E c \in BagToSet(req) : PostUsers_InsertOne(c)
    \/ \E h \in AuthHeaders, i \in UserIdInputs, ro \in {"user", "rider"} :
           OneAtATime /\ PatchUserRole_Verify(h, i, ro)
    \/ \E c \in BagToSet(req) : PatchUserRole_UpdateOne(c)

SpecAuth == Init /\ [][NextAuth]_vars

GatedOps ==
    {"POST /parcels", "GET /parcels/:id", "DELETE /parcels/:id",
     "PATCH /parcels/:id/assign", "POST /payments", "PATCH /users/:id/role"}

\* the request that just ended was stopped by verifyFBToken with the status
\* its Authorization header calls for
RejectedAsCalledFor ==
    \/ resp.status = 401 /\ (~resp.auth.present \/ resp.auth.token = "")
    \/ resp.status = 403 /\ resp.auth.present /\ resp.auth.token # ""
                         /\ ~resp.auth.valid

\* C9: on a route gated by verifyFBToken, a request without a bearer token
\* ends 401 and one whose token the Identity Verifier rejects ends 403, in
\* both cases with the store and the requests in flight unchanged; a handler
\* runs, and stays in flight, only with a verified identity in req.decoded.
C9_Authenticate ==
    /\ [](resp.op \in GatedOps =>
             IF resp.by = "verifyFBToken" THEN RejectedAsCalledFor
             ELSE resp.decoded.email \in TokenEmails)
    /\ [](\A c \in BagToSet(req) :
             c.op \in GatedOps => c.decoded.email \in TokenEmails)
    /\ [][resp'.op \in GatedOps /\ resp'.by = "verifyFBToken"
             => UNCHANGED <<store, nextParcel, nextUser, nextRider, req>>]_vars

\* a request to delete a stored parcel was stopped with 403
C9_Witness ==
    /\ resp.op = "DELETE /parcels/:id" /\ resp.by = "verifyFBToken"
    /\ resp.status = 403
    /\ ParcelStored(1)

\* ------------------------------------------------------------ all requests
\* ------------------------------ creating, reading and deleting parcels
\* The parcel routes of src/index.js with those of part_002, which serve the
\* same collection.
NextCrud ==
    \/ Tick
    \/ \E h \in AuthHeaders, b \in ParcelBodies :
           b.payment_status = "unpaid" /\ PostParcels(h, b)
    \/ \E b \in ParcelBodies : b.payment_status = "unpaid" /\ PostParcelsP2(b)
    \/ \E h \in AuthHeaders, p \in ParcelIdInputs : GetParcel(h, p)
    \/ \E h \in AuthHeaders, p \in ParcelIdInputs : DeleteParcel(h, p)
    \/ \E p \in ParcelIdInputs : DeleteParcelP2(p)
    \/ \E h \in AuthHeaders, q \in ParcelQueries : GetParcels(h, q)
    \/ \E q \in ParcelQueries : GetParcelsP2(q)

SpecCrud == Init /\ [][NextCrud]_vars

CreateOps == {"POST /parcels", "POST /parcels (part_002)"}
DeleteOps == {"DELETE /parcels/:id", "DELETE /parcels/:id (part_002)"}
ListOps == {"GET /parcels", "GET /parcels (part_002)"}

\* C13: the document a createParcel stores has the server's time of the
\* creation as its createdAt and the caller's value in every other field the
\* caller sent, and getParcel answers with the document as it is stored.
C13_CreateThenGet ==
    /\ [](resp.op = "GET /parcels/:id" /\ resp.status = 200
              => resp.parcel = parcelCollection[resp.parcelId])
    /\ [][resp'.op \in CreateOps /\ resp'.status = 200 =>
              LET parcel == parcelCollection'[resp'.insertedId] IN
              /\ parcel.createdAt = NewDate(now)
              /\ parcel.created_by = resp'.body.created_by
              /\ parcel.payment_status = resp'.body.payment_status
              /\ parcel.delivery_status = resp'.body.delivery_status]_vars

\* C14: deleteParcel of a well-formed id that names no stored parcel answers
\* "Parcel not found" (with status 200, or 404 in part_002) and leaves the
\* store as it is; and after any deleteParcel of a well-formed id no parcel
\* of that id is stored, so that a second one finds the store as the first
\* left it.
C14_DeleteIdempotent ==
    [][(/\ resp'.op \in DeleteOps
        /\ resp'.by = "handler"
        /\ ObjectIdIsValid(resp'.parcelId))
           => /\ ~ParcelStored(resp'.parcelId)
                  => /\ resp'.message = "Parcel not found"
                     /\ resp'.status \in {200, 404}
                     /\ UNCHANGED <<store, nextParcel, nextUser, nextRider, req>>
              /\ resp'.parcelId \in ParcelIds
                  => parcelCollection'[resp'.parcelId] = NoDoc]_vars

\* a parcel that has been deleted has just been deleted once more
C14_Witness ==
    /\ resp.op \in DeleteOps /\ resp.status \in {200, 404}
    /\ resp.message = "Parcel not found"
    /\ resp.parcelId \in ParcelIds
    /\ resp.parcelId <= nextParcel

\* the parcels of a list, as a set
ListedParcels == {resp.parcels[i] : i \in DOMAIN resp.parcels}

\* C17: listParcels answers with exactly the stored parcels that match every
\* parameter given among email (created_by), payment_status, delivery_status
\* and assigned_rider_email, each once, newest first by createdAt.
C17_ListExactNewestFirst ==
    (resp.op \in ListOps /\ resp.status = 200)
        => /\ ListedParcels =
                  {p \in ParcelIds :
                      /\ ParcelStored(p)
                      /\ resp.query.email # ""
                             => parcelCollection[p].created_by = resp.query.email
                      /\ resp.query.payment_status # ""
                             => parcelCollection[p].payment_status
                                    = resp.query.payment_status
                      /\ resp.query.delivery_status # ""
                             => parcelCollection[p].delivery_status
                                    = resp.query.delivery_status
                      /\ resp.query.assigned_rider_email # ""
                             => parcelCollection[p].assigned_rider_email
                                    = resp.query.assigned_rider_email}
           /\ Len(resp.parcels) = Cardinality(ListedParcels)
           /\ \A i, j \in DOMAIN resp.parcels :
                  i < j => SortKey(parcelCollection[resp.parcels[i]].createdAt)
                               >= SortKey(parcelCollection[resp.parcels[j]].createdAt)

\* --------------------------------------------- the status of a parcel
\* POST /parcels with a valid token, and PATCH /parcels/:id/status with one
\* status for each way the handler builds updatedDoc.
NextStatus ==
    \/ Tick
    \/ \E b \in PlainParcelBodies :
           b.payment_status = "unpaid" /\ PostParcels(GoodToken("a@x.com"), b)
    \/ \E p \in ParcelIdInputs, s \in {"pending", "in_transit", "delivered"} :
           PatchStatus(p, s)

SpecStatus == Init /\ [][NextStatus]_vars

\* C15: updateDeliveryStatus(P, s) on a stored parcel sets delivery_status to
\* s, sets picked_at to the server's time when s is "in_transit" and
\* delivered_at when s is "delivered", leaves each of the two as it was for
\* any other s, and the delivered_at it sets is not before the createdAt that
\* createParcel gave the parcel.
C15_StatusStamps ==
    [][(/\ resp'.op = "PATCH /parcels/:id/status"
        /\ resp'.status = 200
        /\ ParcelStored(resp'.parcelId))
           => LET old == parcelCollection[resp'.parcelId]
                  new == parcelCollection'[resp'.parcelId]
                  s == resp'.delivery_status
              IN /\ new.delivery_status = s
                 /\ new.picked_at =
                        IF s = "in_transit" THEN ToISOString(now) ELSE old.picked_at
                 /\ new.delivered_at =
                        IF s = "delivered" THEN ToISOString(now) ELSE old.delivered_at
                 /\ s = "delivered"
                        => TimeOf(new.delivered_at) >= TimeOf(new.createdAt)]_vars

\* a parcel that was picked up has just been set to "delivered", later than
\* it was created
C15_Witness ==
    /\ resp.op = "PATCH /parcels/:id/status" /\ resp.status = 200
    /\ resp.delivery_status = "delivered"
    /\ ParcelStored(resp.parcelId)
    /\ parcelCollection[resp.parcelId].picked_at # NoTime
    /\ parcelCollection[resp.parcelId].delivered_at = ToISOString(now)
    /\ now > TimeOf(parcelCollection[resp.parcelId].createdAt)

\* --------------------------------------------- requests that can fail
\* The routes whose handlers have no try around their store calls, with
\* POST /parcels, which creates the parcels they name.
NextFail ==
    \/ \E h \in AuthHeaders, b \in PlainParcelBodies :
           b.payment_status = "unpaid" /\ PostParcels(h, b)
    \/ \E p \in ParcelIdInputs, ok \in BOOLEAN : PatchCashout(p, ok)
    \/ \E h \in AuthHeaders, p \in ParcelIdInputs :
           PostPayments_Update(h, p, "a@x.com")
    \/ \E c \in BagToSet(req), ok \in BOOLEAN : PostPayments_Insert(c, ok)
    \/ \E b \in TrackingBodies : PostTrackings_Stamp(b)
    \/ \E c \in BagToSet(req), ok \in BOOLEAN : PostTrackings_Insert(c, ok)

SpecFail == Init /\ [][NextFail]_vars

\* C16: no request ends without an answer: a request whose handler or
\* access check failed (a malformed identifier, a store call that failed) has
\* been answered with an error status.
C16_EveryFailureAnswered == resp.op # "none" => resp.status # 0

\* ---------------------------------------------- riders and assignments
\* C18: the Rider document a registerRider stores has status "pending" and
\* work_status "idle", whatever the caller sent.
C18_RegisteredPendingIdle ==
    [][resp'.op = "POST /riders" /\ resp'.status = 200
          => /\ nextRider' = nextRider + 1
             /\ ridersCollection'[nextRider'].status = "pending"
             /\ ridersCollection'[nextRider'].work_status = "idle"]_vars

\* C19: every stored Rider whose work_status is "in_delivery" is the
\* assigned_rider_id of a stored parcel whose delivery_status is
\* "rider_assigned" or "in_transit".
C19_InDeliveryHasParcel ==
    \A r \in RiderIds :
        (RiderStored(r) /\ ridersCollection[r].work_status = "in_delivery")
            => \E p \in ParcelIds :
                   /\ ParcelStored(p)
                   /\ parcelCollection[p].assigned_rider_id = r
                   /\ parcelCollection[p].delivery_status
                          \in {"rider_assigned", "in_transit"}

\* the assignRider requests, concurrent with one another, each with a valid
\* token
NextAssign ==
    \/ \E b \in PlainParcelBodies :
           b.payment_status = "unpaid" /\ PostParcels(GoodToken("a@x.com"), b)
    \/ \E b \in RiderBodies :
           b.status = "pending" /\ b.work_status = "idle" /\ b.email = "a@x.com"
               /\ PostRiders(b)
    \/ \E p \in ParcelIdInputs, i \in RiderIdInputs :
           PatchAssign_Parcel(GoodToken("a@x.com"), p, AssignBody(i))
    \/ \E c \in BagToSet(req), ok \in BOOLEAN : PatchAssign_Rider(c, ok)

SpecAssign == Init /\ [][NextAssign]_vars

\* the rider a parcel document names, and the rider a request body names
AssignedRider(parcel) ==
    <<parcel.assigned_rider_id, parcel.assigned_rider_email,
      parcel.assigned_rider_name>>
RiderSent(riderId) ==
    <<riderId, RiderEmailSent(riderId), RiderNameSent(riderId)>>

\* C20: the assigned_rider_id, assigned_rider_email and assigned_rider_name
\* of a stored parcel are those of one assignRider request (or all unset):
\* every step that changes any of them is the parcel update of one request
\* and writes that request's three values.
C20_AssignedRiderFromOneRequest ==
    /\ [](\A p \in ParcelIds :
              ParcelStored(p)
                  => \/ AssignedRider(parcelCollection[p]) = AssignedRider(Unset)
                     \/ \E i \in RiderIds \cup {UnknownId, BadId} :
                            AssignedRider(parcelCollection[p]) = RiderSent(i))
    /\ [][\A p \in ParcelIds :
              (/\ ParcelStored(p)
               /\ parcelCollection'[p] # NoDoc
               /\ AssignedRider(parcelCollection'[p])
                      # AssignedRider(parcelCollection[p]))
                  => \E c \in BagToSet(req') :
                         /\ CopiesIn(c, req') > CopiesIn(c, req)
                         /\ c.op = "PATCH /parcels/:id/assign"
                         /\ c.parcelId = p
                         /\ AssignedRider(parcelCollection'[p]) = RiderSent(c.riderId)]_vars

\* two assignRider requests for one stored parcel, with different riders, are
\* in flight together, and the parcel names the rider of one of them
C20_Witness ==
    \E c, d \in BagToSet(req) :
        /\ c.op = "PATCH /parcels/:id/assign" /\ d.op = "PATCH /parcels/:id/assign"
        /\ c.parcelId = d.parcelId
        /\ c.riderId = 1 /\ d.riderId # 1
        /\ ParcelStored(c.parcelId)
        /\ AssignedRider(parcelCollection[c.parcelId]) = RiderSent(d.riderId)

Next == NextPay \/ NextUsers \/ NextDelivery \/ NextAuth \/ NextTrack \/ NextCrud
            \/ NextStatus \/ NextFail \/ NextAssign

Spec == Init /\ [][Next]_vars

====
